---- MODULE Spec2Model ----
(***************************************************************************)
(* The root value serializer of surrealdb (lib/src/sql/value/serde/ser/    *)
(* value/mod.rs): `to_value` turns the serde events emitted by any         *)
(* `T: Serialize` into a `sql::Value`.                                     *)
(*                                                                         *)
(* A source value is a tree of serde events (a record with field `ev`).    *)
(* Every method of `Serializer` and of its builders is an operator named   *)
(* as in the source.  `Serialize(src)` is `src.serialize(Serializer.wrap())`*)
(* for a source whose emitter is derive-style (it stops at the first       *)
(* failed call with `?`).  The state machine is the outermost emitter      *)
(* driving the root serializer one method call per step; being arbitrary   *)
(* code, it may also go on after a call has failed.                        *)
(***************************************************************************)
EXTENDS Integers, Sequences, FiniteSets, TLC

VARIABLES pc, call, builder, log, result, again

vars == <<pc, call, builder, log, result, again>>

(***************************************************************************)
(* Bounds                                                                  *)
(***************************************************************************)
\* number of add calls (element, key, value, field) the outermost emitter makes
MaxCalls == 2
\* length of a byte slice handed to serialize_bytes
MaxBytes == 2

(***************************************************************************)
(* Result<T, Error>                                                        *)
(***************************************************************************)
Ok(v) == [ok |-> TRUE, val |-> v]

Err(e) == [ok |-> FALSE, err |-> e]

\* Ok(()) of a builder's add call
Done == [tag |-> "()"]

\* the `?` operator: an Err is returned as it is, an Ok value goes on into F
Try(r, F(_)) == IF r.ok THEN F(r.val) ELSE r

\* `?` inside an add call of a builder: the call returns the Err and leaves the
\* builder `self` as it is, or goes on into F, which returns the changed builder
TryAdd(r, self, F(_)) ==
    IF r.ok THEN [res |-> Ok(Done), self |-> F(r.val)] ELSE [res |-> r, self |-> self]

\* an add call delegated to the buffer in field `inner`
Delegated(self, r) == [res |-> r.res, self |-> [self EXCEPT !.inner = r.self]]

\* impl serde::ser::Error for Error: Error::Encode(EncodeError::Message(msg))
\* (msg is a tuple of strings standing for the formatted text)
custom(msg) == Err([type |-> "Encode", msg |-> msg])

\* the error a narrower serializer raises for an event it does not accept
unexpected(what, expected) == Err([type |-> "Encode", msg |-> <<"unexpected", what, expected>>])

(***************************************************************************)
(* Type tokens                                                             *)
(***************************************************************************)
ValueToken == "$surrealdb::private::sql::Value"

ConstantToken == "$surrealdb::private::sql::Constant"

NumberToken == "$surrealdb::private::sql::Number"

SubqueryToken == "$surrealdb::private::sql::Subquery"

GeometryToken == "$surrealdb::private::sql::Geometry"

StrandToken == "$surrealdb::private::sql::Strand"

BlockToken == "$surrealdb::private::sql::Block"

DurationToken == "$surrealdb::private::sql::Duration"

FutureToken == "$surrealdb::private::sql::Future"

RegexToken == "$surrealdb::private::sql::Regex"

TableToken == "$surrealdb::private::sql::Table"

IdiomToken == "$surrealdb::private::sql::Idiom"

ParamToken == "$surrealdb::private::sql::Param"

ArrayToken == "$surrealdb::private::sql::Array"

ObjectToken == "$surrealdb::private::sql::Object"

UuidToken == "$surrealdb::private::sql::Uuid"

DatetimeToken == "$surrealdb::private::sql::Datetime"

ModelToken == "$surrealdb::private::sql::Model"

FunctionToken == "$surrealdb::private::sql::Function"

ThingToken == "$surrealdb::private::sql::Thing"

ExpressionToken == "$surrealdb::private::sql::Expression"

EdgesToken == "$surrealdb::private::sql::Edges"

RangeToken == "$surrealdb::private::sql::Range"

(***************************************************************************)
(* sql::Value                                                              *)
(***************************************************************************)
None == [tag |-> "None"]

Null == [tag |-> "Null"]

False == [tag |-> "False"]

True == [tag |-> "True"]

\* Value::Number(Number::Int(n))
Number(n) == [tag |-> "Number", kind |-> "Int", n |-> n]

\* Value::Strand, Value::Regex, Value::Table, Value::Param: a case holding text
Text(tag, s) == [tag |-> tag, s |-> s]

Strand(s) == Text("Strand", s)

\* Value::Array(Array(vec))
Array(vec) == [tag |-> "Array", a |-> vec]

\* Value::Object(Object(map)); the map is the sequence of its <<key, value>> entries
Object(map) == [tag |-> "Object", o |-> map]

Constant(c) == [tag |-> "Constant", c |-> c]

\* a Value case whose payload is built by a serializer outside this file
Domain(tag, payload) == [tag |-> tag, p |-> payload]

\* Value::Thing, Expression, Edges, Range: the fields of the struct the accumulator built
Fields(tag, fields) == [tag |-> tag, fields |-> fields]

\* Object::default(), BTreeMap::default()
EmptyMap == <<>>

Keys(map) == {map[i][1] : i \in DOMAIN map}

\* map.insert(key, value): a key already present keeps its place and takes the new value
Insert(map, key, value) ==
    IF key \in Keys(map)
    THEN [i \in DOMAIN map |-> IF map[i][1] = key THEN <<key, value>> ELSE map[i]]
    ELSE Append(map, <<key, value>>)

\* the map! macro with one entry
map1(key, value) == Insert(EmptyMap, key, value)

\* impl From<bool> for Value
from_bool(b) == IF b THEN True ELSE False

(***************************************************************************)
(* Source values: the serde events a `T: Serialize` emits                  *)
(***************************************************************************)
Bool(v) == [ev |-> "bool", v |-> v]

Integer(n) == [ev |-> "int", n |-> n]

Char(c) == [ev |-> "char", c |-> c]

Str(s) == [ev |-> "str", s |-> s]

Bytes(values) == [ev |-> "bytes", values |-> values]

Unit == [ev |-> "unit"]

UnitStruct(name) == [ev |-> "unit_struct", name |-> name]

UnitVariant(name, variant) == [ev |-> "unit_variant", name |-> name, variant |-> variant]

NewtypeStruct(name, value) == [ev |-> "newtype_struct", name |-> name, value |-> value]

NewtypeVariant(name, variant, value) ==
    [ev |-> "newtype_variant", name |-> name, variant |-> variant, value |-> value]

NoneOpt == [ev |-> "none"]

Some(value) == [ev |-> "some", value |-> value]

\* len is the Option<usize> hint: NoLen or Len_(n)
NoLen == [some |-> FALSE]

Len_(n) == [some |-> TRUE, n |-> n]

Seq_(len, elems) == [ev |-> "seq", len |-> len, elems |-> elems]

Tuple(elems) == [ev |-> "tuple", elems |-> elems]

TupleStruct(name, elems) == [ev |-> "tuple_struct", name |-> name, elems |-> elems]

TupleVariant(name, variant, elems) ==
    [ev |-> "tuple_variant", name |-> name, variant |-> variant, elems |-> elems]

\* entries: a sequence of <<key source, value source>>
Map(entries) == [ev |-> "map", entries |-> entries]

\* fields: a sequence of <<field name, value source>>
Struct(name, fields) == [ev |-> "struct", name |-> name, fields |-> fields]

StructVariant(name, variant, fields) ==
    [ev |-> "struct_variant", name |-> name, variant |-> variant, fields |-> fields]

\* a source whose own emission logic returns Err(S::Error::custom(msg))
Fail(msg) == [ev |-> "fail", msg |-> msg]

(***************************************************************************)
(* Serializers outside this file, as far as the root serializer uses them  *)
(***************************************************************************)
\* ser::string::Serializer: text only
string_Serializer(value) ==
    CASE value.ev = "fail" -> custom(value.msg)
      [] value.ev = "str" -> Ok(value.s)
      [] OTHER -> unexpected(value.ev, "a string")

\* the serializers of Block, Future, Duration, Idiom, Uuid, Datetime: their payload
\* is kept as the source that was handed in
payload_Serializer(value) ==
    CASE value.ev = "fail" -> custom(value.msg)
      [] OTHER -> Ok(value)

ConstantVariants == {"MathPi", "MathE"}

\* ser::constant::Serializer.serialize_unit_variant
constant_serialize_unit_variant(name, variant) ==
    IF variant \in ConstantVariants
    THEN Ok(variant)
    ELSE custom(<<"unknown unit variant", name, variant>>)

\* ser::number::Serializer.serialize_newtype_variant
number_serialize_newtype_variant(name, variant, value) ==
    CASE value.ev = "fail" -> custom(value.msg)
      [] variant = "Int" /\ value.ev = "int" -> Ok([kind |-> "Int", n |-> value.n])
      [] OTHER -> custom(<<"unknown newtype variant", name, variant>>)

SubqueryVariants == {"Value"}

GeometryVariants == {"Point"}

\* ser::subquery::Serializer / ser::geometry::Serializer .serialize_newtype_variant
external_serialize_newtype_variant(variants, name, variant, value) ==
    CASE value.ev = "fail" -> custom(value.msg)
      [] variant \in variants -> Ok([variant |-> variant, value |-> value])
      [] OTHER -> custom(<<"unknown newtype variant", name, variant>>)

\* the field names of the four struct accumulators, in declaration order
FieldOrder(mode) ==
    CASE mode = "Thing" -> <<"tb", "id">>
      [] mode = "Expression" -> <<"l", "o", "r">>
      [] mode = "Edges" -> <<"dir", "from", "what">>
      [] mode = "Range" -> <<"tb", "beg", "end">>

FieldNames(mode) == {FieldOrder(mode)[i] : i \in DOMAIN FieldOrder(mode)}

\* SerializeThing / SerializeExpression / SerializeEdges / SerializeRange ::serialize_field
accumulator_serialize_field(mode, fields, key, value) ==
    CASE value.ev = "fail" -> [res |-> custom(value.msg), self |-> fields]
      [] key \notin FieldNames(mode) ->
            [res |-> custom(<<"unexpected field", mode, key>>), self |-> fields]
      [] OTHER -> [res |-> Ok(Done), self |-> Insert(fields, key, value)]

\* ... ::end: every declared field must have been seen
accumulator_end(mode, fields) ==
    IF FieldNames(mode) \subseteq Keys(fields)
    THEN Ok([i \in DOMAIN FieldOrder(mode) |->
                LET k == FieldOrder(mode)[i]
                    j == CHOOSE j \in DOMAIN fields : fields[j][1] = k
                IN <<k, fields[j][2]>>])
    ELSE custom(<<"missing field", mode>>)

\* the variants of Model and Function that carry positional fields, with their arity
TupleVariants(mode) ==
    CASE mode = "Model" -> {<<"Count", 2>>}
      [] mode = "Function" -> {<<"Cast", 2>>}

\* ser::model::Serializer / ser::function::Serializer .serialize_tuple_variant
tuple_accumulator_open(mode, name, variant, len) ==
    IF \E t \in TupleVariants(mode) : t[1] = variant
    THEN Ok([variant |-> variant, fields |-> <<>>])
    ELSE custom(<<"unknown tuple variant", name, variant>>)

\* SerializeModel / SerializeFunction ::serialize_field
tuple_accumulator_serialize_field(mode, acc, value) ==
    CASE value.ev = "fail" -> [res |-> custom(value.msg), self |-> acc]
      [] <<acc.variant, Len(acc.fields)>> \in TupleVariants(mode) ->
            [res |-> custom(<<"unexpected field", mode, acc.variant>>), self |-> acc]
      [] OTHER -> [res |-> Ok(Done), self |-> [acc EXCEPT !.fields = Append(@, value)]]

\* SerializeModel / SerializeFunction ::end
tuple_accumulator_end(mode, acc) ==
    IF <<acc.variant, Len(acc.fields)>> \in TupleVariants(mode)
    THEN Ok(acc)
    ELSE custom(<<"missing field", mode, acc.variant>>)

(***************************************************************************)
(* vec::SerializeValueVec and map::SerializeValueMap, the buffers the root *)
(* builders wrap.  An add call returns [res, self]: the Result it returns  *)
(* and the builder as the call leaves it.                                  *)
(***************************************************************************)
RECURSIVE Serialize(_)
RECURSIVE Feed(_, _)

\* two add calls in a row, the second only if the first did not fail
AddThen(a, F(_)) == IF a.res.ok THEN F(a.self) ELSE a

\* the emitter after its last add call: it returns the Err of a failed add, or closes
Closed(f, End_(_)) == IF f.res.ok THEN End_(f.self) ELSE f.res

\* Vec::with_capacity(n)
with_capacity(n) == [items |-> <<>>, cap |-> n]

\* Vec::push
push(vec, value) ==
    [items |-> Append(vec.items, value),
     cap |-> IF Len(vec.items) + 1 > vec.cap THEN Len(vec.items) + 1 ELSE vec.cap]

\* self.0.push(value.serialize(ser::value::Serializer.wrap())?)
SerializeValueVec_serialize_element(vec, value) ==
    TryAdd(Serialize(value), vec, LAMBDA v : push(vec, v))

SerializeValueVec_end(vec) == Ok(vec.items)

NoKey == [some |-> FALSE]

SomeKey(k) == [some |-> TRUE, k |-> k]

SerializeValueMap_default == [map |-> EmptyMap, next_key |-> NoKey]

\* the key goes through the string serializer and waits for its value
SerializeValueMap_serialize_key(self, key) ==
    TryAdd(string_Serializer(key), self, LAMBDA k : [self EXCEPT !.next_key = SomeKey(k)])

\* the value goes through the root serializer and is inserted under the waiting key
SerializeValueMap_serialize_value(self, value) ==
    IF self.next_key.some
    THEN TryAdd(Serialize(value), [self EXCEPT !.next_key = NoKey],
                LAMBDA v : [map |-> Insert(self.map, self.next_key.k, v), next_key |-> NoKey])
    ELSE [res |-> custom(<<"serialize_value called before serialize_key">>), self |-> self]

\* serde's default serialize_entry: the key, then the value
SerializeValueMap_serialize_entry(self, key, value) ==
    AddThen(SerializeValueMap_serialize_key(self, key),
            LAMBDA keyed : SerializeValueMap_serialize_value(keyed, value))

SerializeValueMap_end(self) == Ok(self.map)

\* vec::Serializer: a sequence whose elements go through the root serializer
vec_Serializer(value) ==
    CASE value.ev = "fail" -> custom(value.msg)
      [] value.ev = "seq" ->
            Closed(Feed([type |-> "SerializeValueVec",
                         inner |-> with_capacity(IF value.len.some THEN value.len.n ELSE 0)],
                        [i \in DOMAIN value.elems |-> <<Unit, value.elems[i]>>]),
                   LAMBDA b : SerializeValueVec_end(b.inner))
      [] OTHER -> unexpected(value.ev, "a sequence")

\* map::Serializer: a map whose keys are text and whose values go through the root serializer
map_Serializer(value) ==
    CASE value.ev = "fail" -> custom(value.msg)
      [] value.ev = "map" ->
            Closed(Feed([type |-> "SerializeValueMap", inner |-> SerializeValueMap_default],
                        value.entries),
                   LAMBDA b : SerializeValueMap_end(b.inner))
      [] OTHER -> unexpected(value.ev, "a map")

(***************************************************************************)
(* impl ser::Serializer for Serializer                                     *)
(***************************************************************************)
serialize_bool(value) == Ok(from_bool(value))

\* serialize_i8 .. serialize_i64, serialize_u8 .. serialize_u64: value.into()
serialize_int(value) == Ok(Number(value))

\* a String holding the one char
serialize_char(value) == Ok(Strand(value))

serialize_str(value) == Ok(Strand(value))

\* the bytes come out last first
serialize_bytes_reversed(values) ==
    Ok(Array([i \in DOMAIN values |-> Number(values[Len(values) + 1 - i])]))

\* one Value::from(u8) per byte, pushed in order
serialize_bytes(values) ==
    Ok(Array([i \in DOMAIN values |-> Number(values[i])]))

\* unit converts to Null
serialize_unit_null == Ok(Null)

serialize_unit == Ok(None)

serialize_unit_struct(name) == serialize_unit

\* an unknown case name under ValueToken falls back to text
serialize_unit_variant_text_fallback(name, variant) ==
    CASE name = ConstantToken ->
            Try(constant_serialize_unit_variant(name, variant), LAMBDA c : Ok(Constant(c)))
      [] name = ValueToken /\ variant = "None" -> Ok(None)
      [] name = ValueToken /\ variant = "Null" -> Ok(Null)
      [] name = ValueToken /\ variant = "False" -> Ok(False)
      [] name = ValueToken /\ variant = "True" -> Ok(True)
      [] OTHER -> serialize_str(variant)

serialize_unit_variant(name, variant) ==
    CASE name = ConstantToken ->
            Try(constant_serialize_unit_variant(name, variant), LAMBDA c : Ok(Constant(c)))
      [] name = ValueToken ->
            CASE variant = "None" -> Ok(None)
              [] variant = "Null" -> Ok(Null)
              [] variant = "False" -> Ok(False)
              [] variant = "True" -> Ok(True)
              [] OTHER -> custom(<<"unknown unit variant Value::", variant>>)
      [] OTHER -> serialize_str(variant)

\* the newtype tokens whose payload is text, and the Value case each builds
TextTokens == {<<StrandToken, "Strand">>, <<RegexToken, "Regex">>,
               <<TableToken, "Table">>, <<ParamToken, "Param">>}

\* the newtype tokens whose payload has a serializer of its own
PayloadTokens == {<<BlockToken, "Block">>, <<DurationToken, "Duration">>,
                  <<FutureToken, "Future">>, <<IdiomToken, "Idiom">>,
                  <<UuidToken, "Uuid">>, <<DatetimeToken, "Datetime">>}

TagOf(tokens, name) == (CHOOSE t \in tokens : t[1] = name)[2]

\* an unmatched wrapper leaves its name behind as the key of an object
serialize_newtype_struct_keeps_name(name, value) ==
    CASE \E t \in TextTokens : t[1] = name ->
            Try(string_Serializer(value), LAMBDA t : Ok(Text(TagOf(TextTokens, name), t)))
      [] \E t \in PayloadTokens : t[1] = name ->
            Try(payload_Serializer(value),
                LAMBDA p : Ok(Domain(TagOf(PayloadTokens, name), p)))
      [] name = ArrayToken -> Try(vec_Serializer(value), LAMBDA vec : Ok(Array(vec)))
      [] name = ObjectToken -> Try(map_Serializer(value), LAMBDA map : Ok(Object(map)))
      [] OTHER -> Try(Serialize(value), LAMBDA v : Ok(Object(map1(name, v))))

serialize_newtype_struct(name, value) ==
    CASE \E t \in TextTokens : t[1] = name ->
            Try(string_Serializer(value), LAMBDA t : Ok(Text(TagOf(TextTokens, name), t)))
      [] \E t \in PayloadTokens : t[1] = name ->
            Try(payload_Serializer(value),
                LAMBDA p : Ok(Domain(TagOf(PayloadTokens, name), p)))
      [] name = ArrayToken -> Try(vec_Serializer(value), LAMBDA vec : Ok(Array(vec)))
      [] name = ObjectToken -> Try(map_Serializer(value), LAMBDA map : Ok(Object(map)))
      [] OTHER -> Serialize(value)

\* the ValueToken arm is missing: a Value's payload is wrapped like any other case
serialize_newtype_variant_no_value_arm(name, variant, value) ==
    CASE name = NumberToken ->
            Try(number_serialize_newtype_variant(name, variant, value),
                LAMBDA n : Ok(Number(n.n)))
      [] name = SubqueryToken ->
            Try(external_serialize_newtype_variant(SubqueryVariants, name, variant, value),
                LAMBDA p : Ok(Domain("Subquery", p)))
      [] name = GeometryToken ->
            Try(external_serialize_newtype_variant(GeometryVariants, name, variant, value),
                LAMBDA p : Ok(Domain("Geometry", p)))
      [] OTHER -> Try(Serialize(value), LAMBDA v : Ok(Object(map1(variant, v))))

\* the object is keyed by the enclosing name instead of the case name
serialize_newtype_variant_keyed_by_name(name, variant, value) ==
    CASE name = NumberToken ->
            Try(number_serialize_newtype_variant(name, variant, value),
                LAMBDA n : Ok(Number(n.n)))
      [] name = SubqueryToken ->
            Try(external_serialize_newtype_variant(SubqueryVariants, name, variant, value),
                LAMBDA p : Ok(Domain("Subquery", p)))
      [] name = GeometryToken ->
            Try(external_serialize_newtype_variant(GeometryVariants, name, variant, value),
                LAMBDA p : Ok(Domain("Geometry", p)))
      [] name = ValueToken -> Serialize(value)
      [] OTHER -> Try(Serialize(value), LAMBDA v : Ok(Object(map1(name, v))))

serialize_newtype_variant(name, variant, value) ==
    CASE name = NumberToken ->
            Try(number_serialize_newtype_variant(name, variant, value),
                LAMBDA n : Ok(Number(n.n)))
      [] name = SubqueryToken ->
            Try(external_serialize_newtype_variant(SubqueryVariants, name, variant, value),
                LAMBDA p : Ok(Domain("Subquery", p)))
      [] name = GeometryToken ->
            Try(external_serialize_newtype_variant(GeometryVariants, name, variant, value),
                LAMBDA p : Ok(Domain("Geometry", p)))
      [] name = ValueToken -> Serialize(value)
      [] OTHER -> Try(Serialize(value), LAMBDA v : Ok(Object(map1(variant, v))))

serialize_none == serialize_unit

serialize_some(value) == Serialize(value)

\* len.unwrap_or_default()
unwrap_or_default(len) == IF len.some THEN len.n ELSE 0

\* the hint is taken for a length: the buffer starts with that many None
serialize_seq_padded(len) ==
    Ok([type |-> "SerializeArray",
        inner |-> [items |-> [i \in 1..unwrap_or_default(len) |-> None],
                   cap |-> unwrap_or_default(len)]])

serialize_seq(len) ==
    Ok([type |-> "SerializeArray", inner |-> with_capacity(unwrap_or_default(len))])

serialize_tuple(len) == serialize_seq(Len_(len))

serialize_tuple_struct(name, len) == serialize_seq(Len_(len))

serialize_tuple_variant(name, variant, len) ==
    CASE name = ModelToken ->
            Try(tuple_accumulator_open("Model", name, variant, len),
                LAMBDA acc : Ok([type |-> "SerializeTupleVariant", mode |-> "Model",
                                 inner |-> acc]))
      [] name = FunctionToken ->
            Try(tuple_accumulator_open("Function", name, variant, len),
                LAMBDA acc : Ok([type |-> "SerializeTupleVariant", mode |-> "Function",
                                 inner |-> acc]))
      [] OTHER -> Ok([type |-> "SerializeTupleVariant", mode |-> "Unknown",
                      variant |-> variant, inner |-> with_capacity(len)])

serialize_map(len) == Ok([type |-> "SerializeMap", inner |-> SerializeValueMap_default])

\* every reserved token, not only the four struct tokens, leaves the generic rule
serialize_struct_any_token(name, len) ==
    CASE name = ThingToken -> Ok([type |-> "SerializeStruct", mode |-> "Thing", inner |-> <<>>])
      [] name = ExpressionToken ->
            Ok([type |-> "SerializeStruct", mode |-> "Expression", inner |-> <<>>])
      [] name = EdgesToken -> Ok([type |-> "SerializeStruct", mode |-> "Edges", inner |-> <<>>])
      [] name = RangeToken \/ name = ValueToken \/ name = ArrayToken ->
            Ok([type |-> "SerializeStruct", mode |-> "Range", inner |-> <<>>])
      [] OTHER -> Ok([type |-> "SerializeStruct", mode |-> "Unknown",
                      inner |-> SerializeValueMap_default])

serialize_struct(name, len) ==
    CASE name = ThingToken -> Ok([type |-> "SerializeStruct", mode |-> "Thing", inner |-> <<>>])
      [] name = ExpressionToken ->
            Ok([type |-> "SerializeStruct", mode |-> "Expression", inner |-> <<>>])
      [] name = EdgesToken -> Ok([type |-> "SerializeStruct", mode |-> "Edges", inner |-> <<>>])
      [] name = RangeToken -> Ok([type |-> "SerializeStruct", mode |-> "Range", inner |-> <<>>])
      [] OTHER -> Ok([type |-> "SerializeStruct", mode |-> "Unknown",
                      inner |-> SerializeValueMap_default])

\* the builder is keyed by the enclosing name instead of the case name
serialize_struct_variant_keyed_by_name(name, variant, len) ==
    Ok([type |-> "SerializeStructVariant", name |-> name, map |-> EmptyMap])

serialize_struct_variant(name, variant, len) ==
    Ok([type |-> "SerializeStructVariant", name |-> variant, map |-> EmptyMap])

(***************************************************************************)
(* The builders                                                            *)
(***************************************************************************)
\* impl SerializeSeq / SerializeTuple / SerializeTupleStruct for SerializeArray
SerializeArray_serialize_element(self, value) ==
    Delegated(self, SerializeValueVec_serialize_element(self.inner, value))

SerializeArray_end(self) ==
    Try(SerializeValueVec_end(self.inner), LAMBDA vec : Ok(Array(vec)))

\* impl SerializeMap for SerializeMap
SerializeMap_serialize_key(self, key) ==
    Delegated(self, SerializeValueMap_serialize_key(self.inner, key))

SerializeMap_serialize_value(self, value) ==
    Delegated(self, SerializeValueMap_serialize_value(self.inner, value))

SerializeMap_end(self) ==
    Try(SerializeValueMap_end(self.inner), LAMBDA map : Ok(Object(map)))

\* impl SerializeTupleVariant for SerializeTupleVariant
SerializeTupleVariant_serialize_field(self, value) ==
    CASE self.mode = "Model" ->
            Delegated(self, tuple_accumulator_serialize_field("Model", self.inner, value))
      [] self.mode = "Function" ->
            Delegated(self, tuple_accumulator_serialize_field("Function", self.inner, value))
      [] OTHER -> Delegated(self, SerializeValueVec_serialize_element(self.inner, value))

\* the generic case closes into the bare list
SerializeTupleVariant_end_unwrapped(self) ==
    CASE self.mode = "Model" ->
            Try(tuple_accumulator_end("Model", self.inner), LAMBDA m : Ok(Domain("Model", m)))
      [] self.mode = "Function" ->
            Try(tuple_accumulator_end("Function", self.inner),
                LAMBDA f : Ok(Domain("Function", f)))
      [] OTHER -> Try(SerializeValueVec_end(self.inner), LAMBDA vec : Ok(Array(vec)))

SerializeTupleVariant_end(self) ==
    CASE self.mode = "Model" ->
            Try(tuple_accumulator_end("Model", self.inner), LAMBDA m : Ok(Domain("Model", m)))
      [] self.mode = "Function" ->
            Try(tuple_accumulator_end("Function", self.inner),
                LAMBDA f : Ok(Domain("Function", f)))
      [] OTHER ->
            Try(SerializeValueVec_end(self.inner),
                LAMBDA vec : Ok(Object(map1(self.variant, Array(vec)))))

\* a field the accumulator does not know turns the builder into the generic one
SerializeStruct_serialize_field_falls_back(self, key, value) ==
    CASE self.mode \in {"Thing", "Expression", "Edges", "Range"}
           /\ key \in FieldNames(self.mode) ->
            Delegated(self, accumulator_serialize_field(self.mode, self.inner, key, value))
      [] OTHER ->
            Delegated([self EXCEPT !.mode = "Unknown",
                                   !.inner = IF self.mode = "Unknown"
                                             THEN self.inner ELSE SerializeValueMap_default],
                      SerializeValueMap_serialize_entry(
                          IF self.mode = "Unknown" THEN self.inner
                                                   ELSE SerializeValueMap_default,
                          Str(key), value))

\* impl SerializeStruct for SerializeStruct
SerializeStruct_serialize_field(self, key, value) ==
    CASE self.mode \in {"Thing", "Expression", "Edges", "Range"} ->
            Delegated(self, accumulator_serialize_field(self.mode, self.inner, key, value))
      [] OTHER ->
            Delegated(self, SerializeValueMap_serialize_entry(self.inner, Str(key), value))

SerializeStruct_end(self) ==
    CASE self.mode \in {"Thing", "Expression", "Edges", "Range"} ->
            Try(accumulator_end(self.mode, self.inner),
                LAMBDA fields : Ok(Fields(self.mode, fields)))
      [] OTHER -> Try(SerializeValueMap_end(self.inner), LAMBDA map : Ok(Object(map)))

\* a failed field leaves its key behind in the map
SerializeStructVariant_serialize_field_keeps_key(self, key, value) ==
    IF Serialize(value).ok
    THEN [res |-> Ok(Done), self |-> [self EXCEPT !.map = Insert(@, key, Serialize(value).val)]]
    ELSE [res |-> Serialize(value), self |-> [self EXCEPT !.map = Insert(@, key, None)]]

\* impl SerializeStructVariant for SerializeStructVariant
SerializeStructVariant_serialize_field(self, key, value) ==
    TryAdd(Serialize(value), self, LAMBDA v : [self EXCEPT !.map = Insert(@, key, v)])

SerializeStructVariant_end(self) ==
    Ok(Object(Insert(EmptyMap, self.name, Object(self.map))))

(***************************************************************************)
(* A derive-style emitter: it opens the builder, adds every item in order, *)
(* returns at the first failed call, and closes the builder.               *)
(***************************************************************************)
\* one add call of the emitter on its builder; item = <<key, value>>
Add(self, item) ==
    CASE self.type = "SerializeArray" -> SerializeArray_serialize_element(self, item[2])
      [] self.type = "SerializeTupleVariant" ->
            SerializeTupleVariant_serialize_field(self, item[2])
      [] self.type = "SerializeStruct" ->
            SerializeStruct_serialize_field(self, item[1], item[2])
      [] self.type = "SerializeStructVariant" ->
            SerializeStructVariant_serialize_field(self, item[1], item[2])
      [] self.type = "SerializeMap" ->
            AddThen(SerializeMap_serialize_key(self, item[1]),
                    LAMBDA keyed : SerializeMap_serialize_value(keyed, item[2]))
      [] self.type = "SerializeValueVec" ->
            Delegated(self, SerializeValueVec_serialize_element(self.inner, item[2]))
      [] self.type = "SerializeValueMap" ->
            Delegated(self, SerializeValueMap_serialize_entry(self.inner, item[1], item[2]))

Feed(self, items) ==
    IF items = <<>>
    THEN [res |-> Ok(Done), self |-> self]
    ELSE AddThen(Add(self, Head(items)), LAMBDA added : Feed(added, Tail(items)))

End(self) ==
    CASE self.type = "SerializeArray" -> SerializeArray_end(self)
      [] self.type = "SerializeTupleVariant" -> SerializeTupleVariant_end(self)
      [] self.type = "SerializeStruct" -> SerializeStruct_end(self)
      [] self.type = "SerializeStructVariant" -> SerializeStructVariant_end(self)
      [] self.type = "SerializeMap" -> SerializeMap_end(self)

\* the call that opens the builder of a composite event
OpenFor(value) ==
    CASE value.ev = "seq" -> serialize_seq(value.len)
      [] value.ev = "tuple" -> serialize_tuple(Len(value.elems))
      [] value.ev = "tuple_struct" -> serialize_tuple_struct(value.name, Len(value.elems))
      [] value.ev = "tuple_variant" ->
            serialize_tuple_variant(value.name, value.variant, Len(value.elems))
      [] value.ev = "map" -> serialize_map(Len_(Len(value.entries)))
      [] value.ev = "struct" -> serialize_struct(value.name, Len(value.fields))
      [] value.ev = "struct_variant" ->
            serialize_struct_variant(value.name, value.variant, Len(value.fields))

\* the add calls that follow, as <<key, value>>
ItemsOf(value) ==
    CASE value.ev \in {"seq", "tuple", "tuple_struct", "tuple_variant"} ->
            [i \in DOMAIN value.elems |-> <<Unit, value.elems[i]>>]
      [] value.ev = "map" -> value.entries
      [] value.ev \in {"struct", "struct_variant"} -> value.fields

\* value.serialize(Serializer.wrap())
Serialize(value) ==
    CASE value.ev = "fail" -> custom(value.msg)
      [] value.ev = "bool" -> serialize_bool(value.v)
      [] value.ev = "int" -> serialize_int(value.n)
      [] value.ev = "char" -> serialize_char(value.c)
      [] value.ev = "str" -> serialize_str(value.s)
      [] value.ev = "bytes" -> serialize_bytes(value.values)
      [] value.ev = "unit" -> serialize_unit
      [] value.ev = "unit_struct" -> serialize_unit_struct(value.name)
      [] value.ev = "unit_variant" -> serialize_unit_variant(value.name, value.variant)
      [] value.ev = "newtype_struct" -> serialize_newtype_struct(value.name, value.value)
      [] value.ev = "newtype_variant" ->
            serialize_newtype_variant(value.name, value.variant, value.value)
      [] value.ev = "none" -> serialize_none
      [] value.ev = "some" -> serialize_some(value.value)
      [] OTHER ->
            Try(OpenFor(value),
                LAMBDA opened : Closed(Feed(opened, ItemsOf(value)), LAMBDA b : End(b)))

\* serialize_internal(|| value.serialize(Serializer.wrap()))
to_value(value) == Serialize(value)

(***************************************************************************)
(* The derived `impl Serialize for Value`: each case is emitted as a case  *)
(* of the enum named ValueToken, its payload by the payload's own impl.    *)
(***************************************************************************)
RECURSIVE Value_serialize(_)
Value_serialize(v) ==
    CASE v.tag \in {"None", "Null", "False", "True"} -> UnitVariant(ValueToken, v.tag)
      [] v.tag = "Number" ->
            NewtypeVariant(ValueToken, "Number",
                           NewtypeVariant(NumberToken, v.kind, Integer(v.n)))
      [] v.tag = "Array" ->
            NewtypeVariant(ValueToken, "Array",
                NewtypeStruct(ArrayToken,
                    Seq_(Len_(Len(v.a)), [i \in DOMAIN v.a |-> Value_serialize(v.a[i])])))
      [] v.tag = "Object" ->
            NewtypeVariant(ValueToken, "Object",
                NewtypeStruct(ObjectToken,
                    Map([i \in DOMAIN v.o |-> <<Str(v.o[i][1]), Value_serialize(v.o[i][2])>>])))
      [] v.tag = "Constant" ->
            NewtypeVariant(ValueToken, "Constant", UnitVariant(ConstantToken, v.c))
      [] \E t \in TextTokens : t[2] = v.tag ->
            NewtypeVariant(ValueToken, v.tag,
                NewtypeStruct((CHOOSE t \in TextTokens : t[2] = v.tag)[1], Str(v.s)))
      [] \E t \in PayloadTokens : t[2] = v.tag ->
            NewtypeVariant(ValueToken, v.tag,
                NewtypeStruct((CHOOSE t \in PayloadTokens : t[2] = v.tag)[1], v.p))
      [] v.tag = "Subquery" ->
            NewtypeVariant(ValueToken, v.tag,
                           NewtypeVariant(SubqueryToken, v.p.variant, v.p.value))
      [] v.tag = "Geometry" ->
            NewtypeVariant(ValueToken, v.tag,
                           NewtypeVariant(GeometryToken, v.p.variant, v.p.value))
      [] v.tag = "Model" ->
            NewtypeVariant(ValueToken, v.tag,
                           TupleVariant(ModelToken, v.p.variant, v.p.fields))
      [] v.tag = "Function" ->
            NewtypeVariant(ValueToken, v.tag,
                           TupleVariant(FunctionToken, v.p.variant, v.p.fields))
      [] v.tag = "Thing" -> NewtypeVariant(ValueToken, v.tag, Struct(ThingToken, v.fields))
      [] v.tag = "Expression" ->
            NewtypeVariant(ValueToken, v.tag, Struct(ExpressionToken, v.fields))
      [] v.tag = "Edges" -> NewtypeVariant(ValueToken, v.tag, Struct(EdgesToken, v.fields))
      [] v.tag = "Range" -> NewtypeVariant(ValueToken, v.tag, Struct(RangeToken, v.fields))

(***************************************************************************)
(* The inputs the outermost emitter draws from                             *)
(***************************************************************************)
ReservedTokens ==
    {ValueToken, ConstantToken, NumberToken, SubqueryToken, GeometryToken, StrandToken,
     BlockToken, DurationToken, FutureToken, RegexToken, TableToken, IdiomToken,
     ParamToken, ArrayToken, ObjectToken, UuidToken, DatetimeToken, ModelToken,
     FunctionToken, ThingToken, ExpressionToken, EdgesToken, RangeToken}

Names == ReservedTokens \cup {"FooBar"}

\* case names of unit variants
Variants == {"None", "Null", "False", "True", "X", "MathPi", "none", "NULL", ""}

\* case names of newtype variants
NewtypeVariants == {"X", "Int", "Value", "Point"}

ByteValues == {0, 10, 255}

ByteSlices == UNION {[1..n -> ByteValues] : n \in 0..MaxBytes}

Hints == {NoLen, Len_(0), Len_(MaxCalls + 1)}

BadVariant == UnitVariant(ValueToken, "Bogus")

Boom == Fail(<<"emitter failed">>)

FooBar == Struct("FooBar", << <<"foo", Str("Foo")>>, <<"bar", Integer(0)>> >>)

\* sources with composites inside, for payloads
Nested ==
    {Seq_(NoLen, <<Integer(1), Str("Foo")>>),
     Seq_(Len_(2), <<Integer(1), BadVariant>>),
     Tuple(<<Bool(TRUE), Seq_(NoLen, <<Boom>>)>>),
     TupleStruct(ThingToken, <<Integer(1), Integer(1)>>),
     Bytes(<<10, 20>>),
     FooBar,
     Struct("FooBar", << <<"foo", FooBar>>, <<"bar", Boom>> >>),
     Struct(ThingToken, << <<"tb", Str("foo")>>, <<"id", Str("bar")>> >>),
     Struct(ThingToken, << <<"tb", Str("foo")>> >>),
     Struct(ExpressionToken, << <<"l", Str("foo")>>, <<"o", UnitVariant("Operator", "Equal")>>,
                                <<"r", Str("Bar")>> >>),
     Struct(EdgesToken, << <<"dir", UnitVariant("Dir", "In")>>, <<"from", Str("foo:bar")>>,
                           <<"what", Seq_(NoLen, <<Str("foo")>>)>> >>),
     Struct(RangeToken, << <<"tb", Str("foo")>>, <<"beg", Str("foo")>>, <<"end", Unit>> >>),
     TupleVariant("E", "X", <<Integer(1), Integer(2)>>),
     TupleVariant(ModelToken, "Count", <<Str("foo"), Integer(0)>>),
     TupleVariant(FunctionToken, "Cast", <<Str("foo"), Unit>>),
     TupleVariant(ModelToken, "Count", <<Str("foo")>>),
     StructVariant(ThingToken, "C", << <<"tb", Integer(1)>>, <<"id", FooBar>> >>),
     StructVariant("E", "C", << <<"a", BadVariant>> >>),
     Map(<< <<Str("a"), Integer(1)>>, <<Str("b"), FooBar>>, <<Str("a"), Unit>> >>),
     Map(<< <<Integer(1), Integer(1)>> >>),
     NewtypeStruct(ArrayToken, Seq_(NoLen, <<Integer(1), FooBar>>)),
     NewtypeStruct(ObjectToken, Map(<< <<Str("k"), Seq_(NoLen, <<Unit>>)>> >>)),
     NewtypeStruct(StrandToken, Str("Foo")),
     NewtypeStruct(DurationToken, Integer(3)),
     NewtypeStruct("Wrapper", FooBar),
     NewtypeVariant(NumberToken, "Int", Integer(3)),
     NewtypeVariant(SubqueryToken, "Value", UnitVariant(ValueToken, "None")),
     NewtypeVariant(GeometryToken, "Point", Tuple(<<Integer(1), Integer(2)>>)),
     NewtypeVariant(ValueToken, "Strand", NewtypeStruct(StrandToken, Str("Foo"))),
     NewtypeVariant("E", "X", FooBar),
     Some(Some(Integer(3))),
     UnitVariant(ConstantToken, "MathPi")}

Leaves ==
    {Bool(TRUE), Bool(FALSE), Integer(0), Integer(3), Char("c"), Str("Foo"), Unit, NoneOpt,
     UnitStruct("FooBar"), UnitVariant(ValueToken, "Null"), UnitVariant("E", "X"),
     BadVariant, Boom}

\* what a one-value event (newtype struct, newtype variant, some) wraps
Payloads == Leaves \cup Nested

\* what the outermost emitter adds to a sequence or a tuple case
Elements ==
    {Integer(0), Str("Foo"), Boom, FooBar, Seq_(Len_(2), <<Integer(1), BadVariant>>),
     TupleVariant(ModelToken, "Count", <<Str("foo"), Integer(0)>>)}

\* what it adds to a struct or a struct case: <<field name, value>>
FieldKeys == {"foo", "bar", "tb", "id"}

FieldValues == {Str("Foo"), Integer(0), FooBar, Seq_(Len_(2), <<Integer(1), BadVariant>>)}

\* what it adds to a map
MapKeys == {Str("a"), Str("b"), Integer(1)}

MapValues == {Integer(0), FooBar, Boom}

StructNames == {ThingToken, ExpressionToken, EdgesToken, RangeToken,
                "FooBar", ValueToken, ArrayToken, "Thing"}

TupleVariantNames == {ModelToken, FunctionToken, "E", ValueToken, ThingToken, "Model"}

TupleVariantVariants == {"X", "Count", "Cast"}

StructVariantNames == {ThingToken, ExpressionToken, EdgesToken, RangeToken,
                       ModelToken, FunctionToken, ValueToken, "E"}

(***************************************************************************)
(* The state machine: the outermost emitter calling the root serializer.   *)
(*   pc      "start", "building" (a builder is open), "done", "again"      *)
(*   call    the event it emitted first, and how it returned               *)
(*   builder the open builder                                              *)
(*   log     its add calls so far, each with the Result it got             *)
(*   result  what to_value returns                                         *)
(*   again   what to_value returns for the Value it returned               *)
(***************************************************************************)
NoCall == [event |-> [ev |-> "nothing"], exit |-> ""]

NoBuilder == [type |-> "nothing"]

Pending == [ok |-> FALSE, pending |-> TRUE]

Init ==
    /\ pc = "start"
    /\ call = NoCall
    /\ builder = NoBuilder
    /\ log = <<>>
    /\ result = Pending
    /\ again = Pending

\* a call that returns the conversion's Result at once
Return(event, r) ==
    /\ pc = "start"
    /\ pc' = "done"
    /\ call' = [event |-> event, exit |-> "return"]
    /\ result' = r
    /\ UNCHANGED <<builder, log, again>>

\* a call that opens a builder (or fails to, which the emitter returns)
Open(event, o) ==
    /\ pc = "start"
    /\ IF o.ok
       THEN /\ pc' = "building"
            /\ call' = [event |-> event, exit |-> ""]
            /\ builder' = o.val
            /\ UNCHANGED result
       ELSE /\ pc' = "done"
            /\ call' = [event |-> event, exit |-> "return"]
            /\ result' = o
            /\ UNCHANGED builder
    /\ UNCHANGED <<log, again>>

\* an add call on the open builder; r = [res, self]
AddCall(op, key, value, r) ==
    /\ pc = "building"
    /\ Len(log) < MaxCalls
    /\ builder' = r.self
    /\ log' = Append(log, [op |-> op, key |-> key, value |-> value, res |-> r.res])
    /\ UNCHANGED <<pc, call, result, again>>

\* end(self): the emitter returns what the builder closes into
Close(r) ==
    /\ pc = "building"
    /\ pc' = "done"
    /\ call' = [call EXCEPT !.exit = "end"]
    /\ result' = r
    /\ UNCHANGED <<builder, log, again>>

SerializeBool ==
    /\ pc = "start"
    /\ \E v \in BOOLEAN : Return(Bool(v), serialize_bool(v))

SerializeInt ==
    /\ pc = "start"
    /\ \E n \in {0, 3} : Return(Integer(n), serialize_int(n))

SerializeChar ==
    /\ pc = "start"
    /\ Return(Char("c"), serialize_char("c"))

SerializeStr ==
    /\ pc = "start"
    /\ \E v \in {"Foo", "None"} : Return(Str(v), serialize_str(v))

SerializeBytes ==
    /\ pc = "start"
    /\ \E values \in ByteSlices : Return(Bytes(values), serialize_bytes(values))

SerializeUnit ==
    /\ pc = "start"
    /\ Return(Unit, serialize_unit)

SerializeUnitStruct ==
    /\ pc = "start"
    /\ \E name \in Names : Return(UnitStruct(name), serialize_unit_struct(name))

SerializeUnitVariant ==
    /\ pc = "start"
    /\ \E name \in Names, variant \in Variants :
           Return(UnitVariant(name, variant), serialize_unit_variant(name, variant))

SerializeNewtypeStruct ==
    /\ pc = "start"
    /\ \E name \in Names, value \in Payloads :
           Return(NewtypeStruct(name, value), serialize_newtype_struct(name, value))

SerializeNewtypeVariant ==
    /\ pc = "start"
    /\ \E name \in Names, variant \in NewtypeVariants, value \in Payloads :
           Return(NewtypeVariant(name, variant, value),
                  serialize_newtype_variant(name, variant, value))

SerializeNone ==
    /\ pc = "start"
    /\ Return(NoneOpt, serialize_none)

SerializeSome ==
    /\ pc = "start"
    /\ \E value \in Payloads : Return(Some(value), serialize_some(value))

\* the source's own emission logic fails before it calls the serializer
EmitterFails ==
    /\ pc = "start"
    /\ Return(Boom, custom(Boom.msg))

SerializeSeq ==
    /\ pc = "start"
    /\ \E len \in Hints : Open(Seq_(len, <<>>), serialize_seq(len))

SerializeTuple ==
    /\ pc = "start"
    /\ \E len \in 0..MaxCalls : Open(Tuple(<<>>) @@ [len |-> len], serialize_tuple(len))

SerializeTupleStruct ==
    /\ pc = "start"
    /\ \E name \in {"FooBar", ArrayToken, ThingToken}, len \in 0..MaxCalls :
           Open(TupleStruct(name, <<>>) @@ [len |-> len], serialize_tuple_struct(name, len))

SerializeElement ==
    /\ pc = "building"
    /\ builder.type = "SerializeArray"
    /\ \E value \in Elements :
          AddCall("element", "", value, SerializeArray_serialize_element(builder, value))

SerializeArrayEnd ==
    /\ pc = "building"
    /\ builder.type = "SerializeArray"
    /\ Close(SerializeArray_end(builder))

SerializeTupleVariantOpen ==
    /\ pc = "start"
    /\ \E name \in TupleVariantNames, variant \in TupleVariantVariants, len \in {0, MaxCalls} :
           Open(TupleVariant(name, variant, <<>>) @@ [len |-> len],
                serialize_tuple_variant(name, variant, len))

SerializeTupleVariantField ==
    /\ pc = "building"
    /\ builder.type = "SerializeTupleVariant"
    /\ \E value \in Elements :
          AddCall("field", "", value, SerializeTupleVariant_serialize_field(builder, value))

SerializeTupleVariantEnd ==
    /\ pc = "building"
    /\ builder.type = "SerializeTupleVariant"
    /\ Close(SerializeTupleVariant_end(builder))

SerializeMapOpen ==
    /\ pc = "start"
    /\ \E len \in {NoLen, Len_(1)} : Open(Map(<<>>) @@ [len |-> len], serialize_map(len))

SerializeMapKey ==
    /\ pc = "building"
    /\ builder.type = "SerializeMap"
    /\ \E key \in MapKeys : AddCall("key", "", key, SerializeMap_serialize_key(builder, key))

SerializeMapValue ==
    /\ pc = "building"
    /\ builder.type = "SerializeMap"
    /\ \E value \in MapValues :
          AddCall("value", "", value, SerializeMap_serialize_value(builder, value))

SerializeMapEnd ==
    /\ pc = "building"
    /\ builder.type = "SerializeMap"
    /\ Close(SerializeMap_end(builder))

SerializeStructOpen ==
    /\ pc = "start"
    /\ \E name \in StructNames, len \in {0, MaxCalls} :
           Open(Struct(name, <<>>) @@ [len |-> len], serialize_struct(name, len))

SerializeStructField ==
    /\ pc = "building"
    /\ builder.type = "SerializeStruct"
    /\ \E key \in FieldKeys, value \in FieldValues :
          AddCall("field", key, value, SerializeStruct_serialize_field(builder, key, value))

SerializeStructEnd ==
    /\ pc = "building"
    /\ builder.type = "SerializeStruct"
    /\ Close(SerializeStruct_end(builder))

SerializeStructVariantOpen ==
    /\ pc = "start"
    /\ \E name \in StructVariantNames, variant \in {"C", "foo"} :
           Open(StructVariant(name, variant, <<>>),
                serialize_struct_variant(name, variant, MaxCalls))

SerializeStructVariantField ==
    /\ pc = "building"
    /\ builder.type = "SerializeStructVariant"
    /\ \E key \in FieldKeys, value \in FieldValues :
          AddCall("field", key, value,
                  SerializeStructVariant_serialize_field(builder, key, value))

SerializeStructVariantEnd ==
    /\ pc = "building"
    /\ builder.type = "SerializeStructVariant"
    /\ Close(SerializeStructVariant_end(builder))

\* the `?` of the emitter: it returns the error of the add call that just failed
Propagate ==
    /\ pc = "building"
    /\ log # <<>>
    /\ ~log[Len(log)].res.ok
    /\ pc' = "done"
    /\ call' = [call EXCEPT !.exit = "err"]
    /\ result' = log[Len(log)].res
    /\ UNCHANGED <<builder, log, again>>

\* to_value(&value) of the Value that to_value returned
Reconvert ==
    /\ pc = "done"
    /\ result.ok
    /\ pc' = "again"
    /\ again' = to_value(Value_serialize(result.val))
    /\ UNCHANGED <<call, builder, log, result>>

Next ==
    \/ SerializeBool
    \/ SerializeInt
    \/ SerializeChar
    \/ SerializeStr
    \/ SerializeBytes
    \/ SerializeUnit
    \/ SerializeUnitStruct
    \/ SerializeUnitVariant
    \/ SerializeNewtypeStruct
    \/ SerializeNewtypeVariant
    \/ SerializeNone
    \/ SerializeSome
    \/ EmitterFails
    \/ SerializeSeq
    \/ SerializeTuple
    \/ SerializeTupleStruct
    \/ SerializeElement
    \/ SerializeArrayEnd
    \/ SerializeTupleVariantOpen
    \/ SerializeTupleVariantField
    \/ SerializeTupleVariantEnd
    \/ SerializeMapOpen
    \/ SerializeMapKey
    \/ SerializeMapValue
    \/ SerializeMapEnd
    \/ SerializeStructOpen
    \/ SerializeStructField
    \/ SerializeStructEnd
    \/ SerializeStructVariantOpen
    \/ SerializeStructVariantField
    \/ SerializeStructVariantEnd
    \/ Propagate
    \/ Reconvert

Spec == Init /\ [][Next]_vars

(***************************************************************************)
(* What the log says                                                       *)
(***************************************************************************)
Returned == pc \in {"done", "again"}

\* the emitter closed its builder with end()
Ended == Returned /\ call.exit = "end"

\* the add calls that failed
FailedCalls == {i \in DOMAIN log : ~log[i].res.ok}

AllAccepted == FailedCalls = {}

\* convert(v) of a value the emitter added with success
Converted(i) == to_value(log[i].value).val

\* what a builder has accepted so far
Accepted(b) ==
    CASE b.type = "SerializeArray" -> b.inner.items
      [] b.type = "SerializeTupleVariant" ->
            IF b.mode = "Unknown" THEN b.inner.items ELSE b.inner.fields
      [] b.type = "SerializeMap" -> b.inner.map
      [] b.type = "SerializeStruct" -> IF b.mode = "Unknown" THEN b.inner.map ELSE b.inner
      [] b.type = "SerializeStructVariant" -> b.map

\* the converted values of the add calls that succeeded, in call order
RECURSIVE AcceptedValues(_)
AcceptedValues(i) ==
    IF i = 0 THEN <<>>
    ELSE IF log[i].res.ok THEN Append(AcceptedValues(i - 1), Converted(i))
                          ELSE AcceptedValues(i - 1)

\* the fields of the add calls that succeeded, inserted in call order
RECURSIVE AcceptedFields(_)
AcceptedFields(i) ==
    IF i = 0 THEN EmptyMap
    ELSE IF log[i].res.ok THEN Insert(AcceptedFields(i - 1), log[i].key, Converted(i))
                          ELSE AcceptedFields(i - 1)

FailedAddLeavesBuilder ==
    (pc = "building" /\ Len(log') = Len(log) + 1 /\ ~log'[Len(log')].res.ok)
        => Accepted(builder') = Accepted(builder)

\* an emitter that returns at its first failed add ends the conversion in that error
FirstFailureReturned ==
    (Returned /\ call.exit = "err" /\ FailedCalls = {Len(log)})
        => /\ ~result.ok
           /\ result = log[Len(log)].res
           /\ log[Len(log)].op = "element" => result = to_value(log[Len(log)].value)

\* end() converts what the add calls that succeeded have put into the builder
ClosedHoldsAccepted ==
    /\ (Ended /\ builder.type = "SerializeArray")
          => result = Ok(Array(AcceptedValues(Len(log))))
    /\ (Ended /\ builder.type = "SerializeStructVariant")
          => result = Ok(Object(map1(call.event.variant, Object(AcceptedFields(Len(log))))))

SentinelRejection ==
    (Returned /\ call.event.ev = "unit_variant") =>
        LET name == call.event.name
            variant == call.event.variant
        IN /\ name = ValueToken =>
                 /\ variant = "None" => result = Ok(None)
                 /\ variant = "Null" => result = Ok(Null)
                 /\ variant = "False" => result = Ok(False)
                 /\ variant = "True" => result = Ok(True)
                 /\ variant \notin {"None", "Null", "False", "True"} =>
                        /\ ~result.ok
                        /\ result = custom(<<"unknown unit variant Value::", variant>>)
                 /\ result.ok => result.val.tag \in {"None", "Null", "False", "True"}
           /\ (result.ok /\ result.val.tag = "Strand") => name \notin {ConstantToken, ValueToken}
           /\ name \notin {ConstantToken, ValueToken} => result = Ok(Strand(variant))

SentinelRejectionWitness ==
    /\ Returned
    /\ call.event = UnitVariant(ValueToken, "none")
    /\ ~result.ok

\* no two add calls of the log name the same field
DistinctKeys == \A i, j \in DOMAIN log : i # j => log[i].key # log[j].key

UnknownTupleVariantFallback ==
    (/\ Ended
     /\ call.event.ev = "tuple_variant"
     /\ call.event.name \notin {ModelToken, FunctionToken}
     /\ AllAccepted)
        => result = Ok(Object(<< <<call.event.variant,
                                   Array([i \in DOMAIN log |-> Converted(i)])>> >>))

UnknownTupleVariantWitness ==
    /\ Ended
    /\ call.event.ev = "tuple_variant"
    /\ call.event.name = ThingToken
    /\ call.event.variant = "X"
    /\ Len(log) = 2
    /\ AllAccepted
    /\ log[1].value # log[2].value

(***************************************************************************)
(* C6  Byte expansion: a byte slice of length n always converts, into the  *)
(* list of n numbers, the i-th being the i-th byte; never another case.    *)
(***************************************************************************)
ByteExpansion ==
    (Returned /\ call.event.ev = "bytes") =>
        LET values == call.event.values
        IN /\ result.ok
           /\ result.val.tag = "Array"
           /\ Len(result.val.a) = Len(values)
           /\ \A i \in DOMAIN values : result.val.a[i] = Number(values[i])

ByteExpansionWitness ==
    /\ Returned
    /\ call.event.ev = "bytes"
    /\ Len(call.event.values) = 2
    /\ call.event.values[1] > call.event.values[2]

(***************************************************************************)
(* C7  Newtype struct: under ArrayToken the inner sequence converts        *)
(* straight into the list of its converted elements, never into an object  *)
(* around it; under a name that no arm of the match names, the result is   *)
(* exactly what the wrapped value converts to.                             *)
(***************************************************************************)
NewtypeTokens ==
    {t[1] : t \in TextTokens \cup PayloadTokens} \cup {ArrayToken, ObjectToken}

NewtypeStructDispatch ==
    (Returned /\ call.event.ev = "newtype_struct") =>
        LET name == call.event.name
            value == call.event.value
        IN /\ (name = ArrayToken /\ value.ev = "seq"
                  /\ \A i \in DOMAIN value.elems : to_value(value.elems[i]).ok)
                 => result = Ok(Array([i \in DOMAIN value.elems |->
                                          to_value(value.elems[i]).val]))
           /\ (name = ArrayToken /\ result.ok) => result.val.tag = "Array"
           /\ name \notin NewtypeTokens => result = to_value(value)

NewtypeStructArrayWitness ==
    /\ Returned
    /\ call.event = NewtypeStruct(ArrayToken, Seq_(NoLen, <<Integer(1), Str("Foo")>>))
    /\ result = Ok(Array(<<Number(1), Strand("Foo")>>))

(***************************************************************************)
(* C8  Newtype variant: under a name that is none of NumberToken,          *)
(* SubqueryToken, GeometryToken, ValueToken, the case C converts into the  *)
(* object with the one key C holding convert(payload), or fails with the   *)
(* payload's own error; under ValueToken the result is convert(payload).   *)
(***************************************************************************)
NewtypeVariantFallback ==
    (Returned /\ call.event.ev = "newtype_variant") =>
        LET name == call.event.name
            payload == to_value(call.event.value)
        IN /\ name \notin {NumberToken, SubqueryToken, GeometryToken, ValueToken} =>
                 result = IF payload.ok
                          THEN Ok(Object(<< <<call.event.variant, payload.val>> >>))
                          ELSE payload
           /\ name = ValueToken => result = payload

NewtypeVariantWitness ==
    /\ Returned
    /\ call.event = NewtypeVariant(ThingToken, "X", FooBar)
    /\ result.ok

(***************************************************************************)
(* C9  Primitive and optional fidelity: true and false convert to True and *)
(* False; an absent optional, unit and a unit struct of any name convert   *)
(* to None; a present optional converts as its wrapped value does.         *)
(***************************************************************************)
PrimitiveFidelity ==
    Returned =>
        /\ call.event.ev = "bool" => result = Ok(IF call.event.v THEN True ELSE False)
        /\ call.event.ev \in {"none", "unit", "unit_struct"} => result = Ok(None)
        /\ call.event.ev = "some" => result = to_value(call.event.value)

PrimitiveFidelityWitness ==
    /\ Returned
    /\ call.event = UnitStruct(ValueToken)
    /\ result = Ok(None)

(***************************************************************************)
(* C10  The struct-case builder ignores the enclosing name: under every    *)
(* name a struct variant named C whose fields all convert closes into the  *)
(* object with the one key C holding the object of the fields, ki ->       *)
(* convert(vi) (a name emitted twice keeps its first place and its last    *)
(* value); its builder has no mode and the result is never a domain case.  *)
(***************************************************************************)
StructVariantIgnoresName ==
    /\ (pc # "start" /\ call.event.ev = "struct_variant") =>
            (builder.type = "SerializeStructVariant" /\ "mode" \notin DOMAIN builder)
    /\ (Ended /\ call.event.ev = "struct_variant" /\ AllAccepted) =>
            /\ result = Ok(Object(<< <<call.event.variant,
                                       Object(AcceptedFields(Len(log)))>> >>))
            /\ DistinctKeys =>
                  result.val.o[1][2] = Object([i \in DOMAIN log |-> <<log[i].key, Converted(i)>>])

StructVariantWitness ==
    /\ Ended
    /\ call.event.ev = "struct_variant"
    /\ call.event.name = ThingToken
    /\ Len(log) = 2
    /\ AllAccepted
    /\ log[1].key = "tb"
    /\ log[2].key = "id"
    /\ result.val.tag = "Object"

\* the mode the enclosing name of a struct selects
StructModeOf(name) ==
    CASE name = ThingToken -> "Thing"
      [] name = ExpressionToken -> "Expression"
      [] name = EdgesToken -> "Edges"
      [] name = RangeToken -> "Range"
      [] OTHER -> "Unknown"

\* the mode the enclosing name of a tuple variant selects
TupleVariantModeOf(name) ==
    CASE name = ModelToken -> "Model"
      [] name = FunctionToken -> "Function"
      [] OTHER -> "Unknown"

\* the mode the open call of the conversion under way selects
ModeAtOpen ==
    IF call.event.ev = "struct" THEN StructModeOf(call.event.name)
                                ELSE TupleVariantModeOf(call.event.name)

SequenceOrderAndLength ==
    (/\ Ended
     /\ call.event.ev \in {"seq", "tuple", "tuple_struct"}
     /\ AllAccepted)
        => /\ result.ok
           /\ result.val.tag = "Array"
           /\ Len(result.val.a) = Len(log)
           /\ \A i \in DOMAIN log : result.val.a[i] = Converted(i)

\* a tuple struct under a reserved name, hint 0, given the same element twice
SequenceOrderWitness ==
    /\ Ended
    /\ call.event.ev = "tuple_struct"
    /\ call.event.name = ThingToken
    /\ call.event.len = 0
    /\ Len(log) = 2
    /\ log[1].value = Str("Foo")
    /\ log[2].value = Str("Foo")
    /\ result = Ok(Array(<<Strand("Foo"), Strand("Foo")>>))
====
